---- MODULE Spec2Model ----
\* A model of the cache and retrieval pipeline of manga_view.py: the size-based
\* eviction (manage_cache_size), the TTL sweep (cleanup_cache), the bounded
\* download (download_file), the extraction (extract_archive) and the page run
\* of main() that composes them.
EXTENDS Integers, Sequences, FiniteSets, TLC

\* ---------------------------------------------------------------- bounds
\* Number of distinct URLs (hence cache keys) the model considers.
NKeys == 2
\* Number of times the clock of a session advances.
MaxTicks == 2
\* Longest archive (number of entries) the model extracts.
MaxEntries == 2
\* Number of chunks of a response body that reach the byte cap of download_file.
ChunksToCap == 2
\* The two modification times a file of an arbitrary cache content can have.
OldMtime == 1
NewMtime == 2

\* ------------------------------------------------------ program constants
CACHE_SIZE_LIMIT_MB == 270
cache_limit_bytes == CACHE_SIZE_LIMIT_MB * 1024 * 1024

\* ------------------------------------------------------------- the cache
\* Python's None, where a URL or a key (both numbers here) is expected
None == 0 - 1
\* The result of a retrieval that ended with no page list, and with one
NoPages == [ok |-> FALSE, list |-> <<>>]
Pages(l) == [ok |-> TRUE, list |-> l]
\* A path that does not exist, and a file (or directory) of a size and mtime
NoFile == [exists |-> FALSE, size |-> 0, mtime |-> 0]
File(s, m) == [exists |-> TRUE, size |-> s, mtime |-> m]

Urls == 1 .. NKeys
\* hashlib.md5(url.encode()).hexdigest(): an injective map from URLs to keys
\* (no two URLs of the model collide); keys are kept disjoint from URLs.
md5(url) == 100 + url
Keys == {md5(u) : u \in Urls}
UrlOrNone == Urls \cup {None}
\* The sessions that share the cache root
Sessions == {1, 2}

\* Sizes of an arbitrary cache content: an extraction directory takes half the
\* budget and an archive file one byte more, so that two directories sit exactly
\* at the budget and an archive file with a directory one byte over it.
HalfBudget == cache_limit_bytes \div 2
SizeChoices == {HalfBudget + 1}
Mtimes == {OldMtime, NewMtime}
FileStates == {NoFile} \cup {File(s, m) : s \in SizeChoices, m \in Mtimes}
DirStates == {NoFile} \cup {File(HalfBudget, m) : m \in Mtimes}

VARIABLES
  \* the cache root
  archive,                \* archive[k]: the top-level file <k>.<ext>, or NoFile
  exdir,                  \* exdir[k]: the directory <k>_extracted, or NoFile
  exfiles,                \* exfiles[k]: the paths of the files in <k>_extracted
  tmpfile,                \* tmpfile[s]: the temporary file of session s's download
  now,                    \* time.time(), in seconds
  \* the session
  selected_manga_url,     \* st.session_state.selected_manga_url (a URL or None)
  current_mode,           \* st.session_state.current_mode: "list" or "reader"
  manga_urls,             \* st.session_state.manga_urls: the title list
  pc,                     \* position of the session's page run in main()
  \* cleanup_cache
  cleanup_error,          \* the last cleanup_cache run swallowed an exception
  swept,                  \* the files the last cleanup_cache run removed
  \* manage_cache_size
  manga_items_by_hash,    \* the accounting records, a function on the keys seen
  items_order,            \* insertion order of the dict manga_items_by_hash
  total_cache_size_bytes, \* running total of manage_cache_size
  sorted_manga_items,     \* the part of the sorted list the loop has not visited
  evicted,                \* keys whose deletion completed, in order
  evict_failed,           \* keys whose deletion raised
  \* the URLs and the resource behind the selected URL
  url_ext,                \* url_ext[u]: os.path.splitext(u)[-1], as written
  resource_body,          \* number of bytes the response body delivers
  content_length,         \* the Content-Length header, 0 when absent
  zip_valid,              \* the body is a valid archive container
  zip_entries,            \* archive.infolist(): the entries in declared order
  \* download_file, per session
  dl_pc,                  \* position in download_file
  dl_result,              \* its return value (Pending until it returns)
  bytes_downloaded,       \* the local of that name
  http_requests,          \* number of requests.get calls of the current retrieval
  progress,               \* the values passed to progress_bar.progress, in order,
                          \* as numerators of fractions of ProgressDen
  \* extract_archive
  ex_index,               \* position of the loop over archive.infolist()
  image_files,            \* the local list image_files
  warnings,               \* indexes of the entries reported by st.warning
  extract_error,          \* st.error was called for the archive as a whole
  extract_raised,         \* an exception left extract_archive
  extracted_now,          \* indexes archive.extract wrote a file for in this run
  \* the retrieval of show_manga_reader
  pages,                  \* the ordered path list it ended with, NoPages if none
  runs,                   \* the last retrievals: pages, requests, extracted
  format_error            \* st.error of line 414 was called in this page run

cacheVars == <<archive, exdir, exfiles, tmpfile>>
sessionVars == <<selected_manga_url, current_mode, manga_urls>>
sweepVars == <<cleanup_error, swept>>
evictVars == <<manga_items_by_hash, items_order, total_cache_size_bytes,
               sorted_manga_items, evicted, evict_failed>>
remoteVars == <<url_ext, resource_body, content_length, zip_valid, zip_entries>>
dlVars == <<dl_pc, dl_result, bytes_downloaded, http_requests, progress>>
exVars == <<ex_index, image_files, warnings, extract_error, extract_raised,
            extracted_now>>
runVars == <<pages, runs, format_error>>
vars == <<cacheVars, now, sessionVars, pc, sweepVars, evictVars, remoteVars,
          dlVars, exVars, runVars>>

Max(a, b) == IF a >= b THEN a ELSE b

\* ----------------------------------------------------- manage_cache_size
\* line 45: the key of the item being read, or None
current_reading_hash ==
  IF selected_manga_url # None THEN md5(selected_manga_url) ELSE None

\* every order of a set
RECURSIVE Perms(_)
Perms(S) ==
  IF S = {} THEN {<<>>}
  ELSE UNION {{<<x>> \o l : l \in Perms(S \ {x})} : x \in S}

\* The entries of key k in a listing, the directory first iff dirFirst.
KeyEntries(k, dirFirst) ==
  LET f == IF archive[k] # NoFile THEN <<(<<"file", k>>)>> ELSE <<>>
      d == IF exdir[k] # NoFile THEN <<(<<"dir", k>>)>> ELSE <<>>
  IN  IF dirFirst THEN d \o f ELSE f \o d

RECURSIVE GroupedListing(_, _)
GroupedListing(keyOrder, dirFirstKeys) ==
  IF keyOrder = <<>> THEN <<>>
  ELSE KeyEntries(Head(keyOrder), Head(keyOrder) \in dirFirstKeys)
         \o GroupedListing(Tail(keyOrder), dirFirstKeys)

\* os.listdir(cache_dir): the archive files and extraction directories of the
\* cache root in the arbitrary order the operating system returns them. The
\* scan of lines 47-73 touches only the record of the entry's own key, so a
\* listing acts as the listing that keeps the keys in order of first
\* appearance and, per key, the file and the directory in their relative
\* order; these listings stand for all of them.
DirListings ==
  LET present == {k \in Keys : archive[k] # NoFile \/ exdir[k] # NoFile}
      both == {k \in Keys : archive[k] # NoFile /\ exdir[k] # NoFile}
  IN  {GroupedListing(o, df) : o \in Perms(present), df \in SUBSET both}

EmptyDict == [k \in {} |-> None]

\* lines 49-60: a top-level archive file
ScanFile(d, k) ==
  IF k \in DOMAIN d
    THEN d
    ELSE d @@ (k :> [archive_path |-> k,
                     extracted_path |-> k,
                     total_size |-> 0,
                     mtime |-> archive[k].mtime,
                     is_currently_reading |-> (k = current_reading_hash)])

\* lines 61-73: a top-level directory named <key>_extracted
ScanDir(d, k) ==
  IF k \notin DOMAIN d
    THEN d @@ (k :> [archive_path |-> None,
                     extracted_path |-> k,
                     total_size |-> 0,
                     mtime |-> exdir[k].mtime,
                     is_currently_reading |-> (k = current_reading_hash)])
    ELSE [d EXCEPT ![k].extracted_path = k,
                   ![k].mtime = Max(d[k].mtime, exdir[k].mtime)]

\* lines 47-73: the loop over the listing; st = [d, order]
RECURSIVE ScanListing(_, _)
ScanListing(listing, st) ==
  IF listing = <<>>
    THEN st
    ELSE LET e == Head(listing)
             k == e[2]
             d2 == IF e[1] = "file" THEN ScanFile(st.d, k) ELSE ScanDir(st.d, k)
             o2 == IF k \in DOMAIN st.d THEN st.order ELSE Append(st.order, k)
         IN  ScanListing(Tail(listing), [d |-> d2, order |-> o2])

\* lines 75-81: the size of one record
ItemTotalSize(item) ==
  (IF item.archive_path # None /\ archive[item.archive_path] # NoFile
     THEN archive[item.archive_path].size ELSE 0)
  + (IF item.extracted_path # None /\ exdir[item.extracted_path] # NoFile
       THEN exdir[item.extracted_path].size ELSE 0)

RECURSIVE SumSizes(_, _)
SumSizes(d, order) ==
  IF order = <<>> THEN 0
  ELSE d[Head(order)].total_size + SumSizes(d, Tail(order))

\* line 87 with the newest item first
SortKeyLess_newest_first(a, b) ==
  \/ ~a.is_currently_reading /\ b.is_currently_reading
  \/ a.is_currently_reading = b.is_currently_reading /\ a.mtime > b.mtime
\* line 87: key=lambda x: (x['is_currently_reading'], x['mtime'])
SortKeyLess(a, b) ==
  \/ ~a.is_currently_reading /\ b.is_currently_reading
  \/ a.is_currently_reading = b.is_currently_reading /\ a.mtime < b.mtime

\* sorted() is stable: an item goes after every item that is not greater.
RECURSIVE InsertSorted(_, _)
InsertSorted(s, x) ==
  IF s = <<>> THEN <<x>>
  ELSE IF SortKeyLess(x, Head(s)) THEN <<x>> \o s
  ELSE <<Head(s)>> \o InsertSorted(Tail(s), x)

RECURSIVE SortedItems(_, _)
SortedItems(d, order) ==
  IF order = <<>> THEN <<>>
  ELSE InsertSorted(SortedItems(d, SubSeq(order, 1, Len(order) - 1)),
                    d[order[Len(order)]])

\* lines 86 and 89 taking every total for over the budget
OverBudget_always(total) == TRUE
\* lines 86 and 89: total_cache_size_bytes > cache_limit_bytes
OverBudget(total) == total > cache_limit_bytes

\* lines 44-87: the accounting pass, the total and the sort
Account ==
  /\ pc = "account"
  /\ \E listing \in DirListings :
       LET st == ScanListing(listing, [d |-> EmptyDict, order |-> <<>>])
           d == [k \in DOMAIN st.d |->
                   [st.d[k] EXCEPT !.total_size = ItemTotalSize(st.d[k])]]
           total == SumSizes(d, st.order)
       IN  /\ manga_items_by_hash' = d
           /\ items_order' = st.order
           /\ total_cache_size_bytes' = total
           /\ IF OverBudget(total)
                THEN /\ sorted_manga_items' = SortedItems(d, st.order)
                     /\ pc' = "evict"
                ELSE /\ sorted_manga_items' = <<>>
                     /\ pc' = "cleanup"
  /\ UNCHANGED <<cacheVars, sessionVars, now, sweepVars, evicted,
                 evict_failed, remoteVars, dlVars, exVars, runVars>>

\* line 91 without the check of is_currently_reading
MayDelete_any(item) == TRUE
\* line 91: only an item that is not being read may be deleted
MayDelete(item) == ~item.is_currently_reading

\* lines 93-94: os.remove of the archive file applies
HasArchive(item) ==
  item.archive_path # None /\ archive[item.archive_path] # NoFile
\* lines 95-96: shutil.rmtree of the extraction directory applies
HasExtracted(item) ==
  item.extracted_path # None /\ exdir[item.extracted_path] # NoFile

\* lines 88-99: one iteration of the eviction loop
EvictItem ==
  /\ pc = "evict"
  /\ sorted_manga_items # <<>>
  /\ OverBudget(total_cache_size_bytes)
  /\ LET item == Head(sorted_manga_items)
         k == item.extracted_path
     IN  /\ sorted_manga_items' = Tail(sorted_manga_items)
         /\ IF MayDelete(item)
              THEN \/ \* both deletions succeed
                      /\ archive' = IF HasArchive(item)
                                      THEN [archive EXCEPT ![item.archive_path] = NoFile]
                                      ELSE archive
                      /\ exdir' = IF HasExtracted(item)
                                    THEN [exdir EXCEPT ![item.extracted_path] = NoFile]
                                    ELSE exdir
                      /\ exfiles' = IF HasExtracted(item)
                                      THEN [exfiles EXCEPT ![item.extracted_path] = {}]
                                      ELSE exfiles
                      /\ total_cache_size_bytes' =
                           total_cache_size_bytes - item.total_size
                      /\ evicted' = Append(evicted, k)
                      /\ UNCHANGED evict_failed
                   \/ \* os.remove raises: nothing is deleted
                      /\ HasArchive(item)
                      /\ evict_failed' = evict_failed \cup {k}
                      /\ UNCHANGED <<archive, exdir, exfiles,
                                     total_cache_size_bytes, evicted>>
                   \/ \* shutil.rmtree raises after os.remove succeeded
                      /\ HasExtracted(item)
                      /\ archive' = IF HasArchive(item)
                                      THEN [archive EXCEPT ![item.archive_path] = NoFile]
                                      ELSE archive
                      /\ evict_failed' = evict_failed \cup {k}
                      /\ UNCHANGED <<exdir, exfiles, total_cache_size_bytes,
                                     evicted>>
              ELSE UNCHANGED <<archive, exdir, exfiles, total_cache_size_bytes,
                               evicted, evict_failed>>
  /\ UNCHANGED <<pc, tmpfile, sessionVars, now, sweepVars,
                 manga_items_by_hash, items_order, remoteVars, dlVars, exVars,
                 runVars>>

\* lines 88-90: the loop ends (list exhausted, or the break of line 90)
EvictEnd ==
  /\ pc = "evict"
  /\ \/ sorted_manga_items = <<>>
     \/ ~OverBudget(total_cache_size_bytes)
  /\ pc' = "cleanup"
  /\ UNCHANGED <<cacheVars, sessionVars, now, sweepVars, evictVars,
                 remoteVars, dlVars, exVars, runVars>>

\* ---------------------------------------------------------- cleanup_cache
\* line 128: 86400 / 48
ttl_seconds == 86400 \div 48

\* line 127: the top-level regular files of the cache root (the archive files
\* and the temporary files of downloads), as <<kind, name>>
TopLevelFiles ==
  {<<"archive", k>> : k \in {x \in Keys : archive[x] # NoFile}}
    \cup {<<"tmp", t>> : t \in {x \in Sessions : tmpfile[x] # NoFile}}

FileAt(f) == IF f[1] = "archive" THEN archive[f[2]] ELSE tmpfile[f[2]]

\* line 128 with a threshold that is not strict
Expired_inclusive(f) == now - FileAt(f).mtime >= ttl_seconds
\* line 128: the file is past the threshold
Expired(f) == now - FileAt(f).mtime > ttl_seconds

\* lines 120-131: one run of the TTL sweep. The files past the threshold are
\* removed in listing order; an exception (os.remove or os.path.getmtime
\* raising) leaves the loop, so a run that raises has removed only the expired
\* files listed before the one that raised: any proper subset of them.
CleanupCache ==
  /\ pc = "cleanup"
  /\ LET old == {f \in TopLevelFiles : Expired(f)}
     IN  \E removed \in SUBSET old :
           /\ cleanup_error' = (removed # old)
           /\ swept' = removed
           /\ archive' = [k \in Keys |->
                            IF <<"archive", k>> \in removed THEN NoFile
                            ELSE archive[k]]
           /\ tmpfile' = [t \in Sessions |->
                            IF <<"tmp", t>> \in removed THEN NoFile
                            ELSE tmpfile[t]]
  /\ pc' = "view"
  /\ UNCHANGED <<exdir, exfiles, now, sessionVars, evictVars, remoteVars,
                 dlVars, exVars, runVars>>

\* ---------------------------------------------------------- download_file
\* line 133: max_size_mb=240, and line 142
max_size_mb == 240
max_bytes == max_size_mb * 1024 * 1024

\* line 149: the body arrives in chunks; a chunk of the model is the ChunksToCap-th
\* part of the cap, the last chunk of a body is what is left of it.
ChunkBytes == max_bytes \div ChunksToCap
\* The body lengths and the declared lengths (0: no Content-Length header) of
\* the model: under the cap, exactly at it and one byte over it.
BodyChoices == {ChunkBytes, max_bytes, max_bytes + 1}
LengthChoices == {0, ChunkBytes, max_bytes, max_bytes + 1}

\* line 417: archive_path, named by the key of the selected URL
SavePath == md5(selected_manga_url)

\* line 148 with one temporary name shared by every call
TmpName_shared(s) == 1
\* line 148: NamedTemporaryFile gives every call a file name of its own
TmpName(s) == s

\* line 156 writing the chunks to save_path itself
ChunkTarget_save_path == "save_path"
\* line 156: the chunks go to the temporary file
ChunkTarget == "tmp_file"

\* lines 157-160: the denominator of the fraction passed to the progress bar,
\* the declared length, or the byte cap when none is declared
ProgressDen == IF content_length > 0 THEN content_length ELSE max_bytes
\* lines 157-160: its numerator once bytes_downloaded is count
ProgressNum(count) ==
  IF content_length > 0 THEN count
  ELSE IF count < max_bytes THEN count ELSE max_bytes

\* lines 134-137: an existing destination is trusted
DlStart(s) ==
  /\ dl_pc[s] = "start"
  /\ IF archive[SavePath] # NoFile
       THEN /\ dl_result' = [dl_result EXCEPT ![s] = "True"]
            /\ dl_pc' = [dl_pc EXCEPT ![s] = "done"]
            /\ UNCHANGED progress
       ELSE \* line 137: placeholder.progress(0.0)
            /\ dl_pc' = [dl_pc EXCEPT ![s] = "request"]
            /\ progress' = [progress EXCEPT ![s] = Append(@, 0)]
            /\ UNCHANGED dl_result
  /\ UNCHANGED <<cacheVars, now, sessionVars, pc, sweepVars, evictVars,
                 remoteVars, bytes_downloaded, http_requests, exVars, runVars>>

\* lines 139-148: the request, the check of the declared length and the
\* creation of the temporary file
DlRequest(s) ==
  /\ dl_pc[s] = "request"
  /\ http_requests' = [http_requests EXCEPT ![s] = @ + 1]
  /\ \/ \* requests.get or raise_for_status raises a RequestException
        /\ dl_result' = [dl_result EXCEPT ![s] = "False"]
        /\ dl_pc' = [dl_pc EXCEPT ![s] = "done"]
        /\ UNCHANGED <<tmpfile, bytes_downloaded>>
     \/ \* the response arrives
        IF content_length > 0 /\ content_length > max_bytes
          THEN /\ dl_result' = [dl_result EXCEPT ![s] = "False"]
               /\ dl_pc' = [dl_pc EXCEPT ![s] = "done"]
               /\ UNCHANGED <<tmpfile, bytes_downloaded>>
          ELSE /\ tmpfile' = [tmpfile EXCEPT ![TmpName(s)] = File(0, now)]
               /\ bytes_downloaded' = [bytes_downloaded EXCEPT ![s] = 0]
               /\ dl_pc' = [dl_pc EXCEPT ![s] = "stream"]
               /\ UNCHANGED dl_result
  /\ UNCHANGED <<archive, exdir, exfiles, now, sessionVars, pc, sweepVars,
                 evictVars, remoteVars, progress, exVars, runVars>>

\* lines 149-161: one chunk of the body
DlChunk(s) ==
  /\ dl_pc[s] = "stream"
  /\ bytes_downloaded[s] < resource_body
  /\ \/ \* the connection breaks: iter_content raises a RequestException
        /\ dl_result' = [dl_result EXCEPT ![s] = "False"]
        /\ dl_pc' = [dl_pc EXCEPT ![s] = "done"]
        /\ UNCHANGED <<archive, tmpfile, bytes_downloaded, progress>>
     \/ LET left == resource_body - bytes_downloaded[s]
            chunk == IF left < ChunkBytes THEN left ELSE ChunkBytes
            count == bytes_downloaded[s] + chunk
        IN  /\ bytes_downloaded' = [bytes_downloaded EXCEPT ![s] = count]
            /\ IF content_length = 0 /\ count > max_bytes
                 THEN /\ dl_result' = [dl_result EXCEPT ![s] = "False"]
                      /\ dl_pc' = [dl_pc EXCEPT ![s] = "done"]
                      /\ UNCHANGED <<archive, tmpfile, progress>>
                 ELSE /\ IF ChunkTarget = "tmp_file"
                           THEN /\ tmpfile' =
                                     [tmpfile EXCEPT ![TmpName(s)] =
                                        File(tmpfile[TmpName(s)].size + chunk, now)]
                                /\ UNCHANGED archive
                           ELSE /\ archive' =
                                     [archive EXCEPT ![SavePath] =
                                        File(archive[SavePath].size + chunk, now)]
                                /\ UNCHANGED tmpfile
                      \* lines 157-161: the fraction goes to the progress bar,
                      \* which takes it, or, for a fraction above 1, may
                      \* refuse it with an exception download_file lets through
                      /\ progress' = [progress EXCEPT ![s] =
                                        Append(@, ProgressNum(count))]
                      /\ \/ UNCHANGED <<dl_result, dl_pc>>
                         \/ /\ ProgressNum(count) > ProgressDen
                            /\ dl_result' = [dl_result EXCEPT ![s] = "raised"]
                            /\ dl_pc' = [dl_pc EXCEPT ![s] = "done"]
  /\ UNCHANGED <<exdir, exfiles, now, sessionVars, pc, sweepVars, evictVars,
                 remoteVars, http_requests, exVars, runVars>>

\* lines 162-165: the body is complete; the temporary file is closed and renamed
\* to save_path (os.rename replaces an existing destination in one step)
DlRename(s) ==
  /\ dl_pc[s] = "stream"
  /\ bytes_downloaded[s] = resource_body
  /\ IF tmpfile[TmpName(s)] # NoFile
       THEN /\ archive' = [archive EXCEPT ![SavePath] = tmpfile[TmpName(s)]]
            /\ tmpfile' = [tmpfile EXCEPT ![TmpName(s)] = NoFile]
            /\ dl_result' = [dl_result EXCEPT ![s] = "True"]
       ELSE \* os.rename raises FileNotFoundError, which download_file lets through
            /\ dl_result' = [dl_result EXCEPT ![s] = "raised"]
            /\ UNCHANGED <<archive, tmpfile>>
  /\ dl_pc' = [dl_pc EXCEPT ![s] = "done"]
  /\ UNCHANGED <<exdir, exfiles, now, sessionVars, pc, sweepVars, evictVars,
                 remoteVars, bytes_downloaded, http_requests, progress, exVars,
                 runVars>>

Download(s) == DlStart(s) \/ DlRequest(s) \/ DlChunk(s) \/ DlRename(s)

\* -------------------------------------------------------- extract_archive
\* line 109: the longest file name get_safe_filename keeps
max_filename_len == 50

\* An archive entry's file name: a page number, the length of the whole name
\* and an extension; the name has no directory component unless put in one.
FileName(id, len, ext) == [dir |-> "", id |-> id, len |-> len, ext |-> ext]
\* The name with directory components in front, as in "ch1/p1.png"
InDir(name, dir) == [name EXCEPT !.dir = dir]
\* os.path.basename of the name
basename(name) == [name EXCEPT !.dir = ""]
\* What archive.extract does with an entry: "none" writes its file, "clean"
\* raises before anything is written (a file name too long for the file
\* system), "dirty" raises once the file is written (zipfile checks the CRC at
\* the end of the data and leaves the file it wrote).
Faults == {"none", "clean", "dirty"}
Entry(name, fault) == [filename |-> name, fault |-> fault]
ImageEntries ==
  {Entry(FileName(id, len, ".png"), f) :
     id \in 1 .. 2, len \in {max_filename_len, max_filename_len + 1}, f \in Faults}
   \cup {Entry(InDir(FileName(1, len, ".png"), "ch1/"), "none") :
           len \in {max_filename_len, max_filename_len + 1}}
OtherEntries == {Entry(FileName(3, max_filename_len, ".txt"), "none")}
EntryChoices == ImageEntries \cup OtherEntries

\* lines 104-105
is_valid_image(filename) == filename.ext \in {".jpg", ".jpeg", ".png"}

\* A path inside the extraction directory: a file name as it is in the archive,
\* or md5(name)_index.ext
PlainPath(filename) == [hashed |-> FALSE, name |-> filename, index |-> None]
HashedPath(filename, index) == [hashed |-> TRUE, name |-> filename, index |-> index]

\* lines 107-112
get_safe_filename(original_filename, index) ==
  IF original_filename.len > max_filename_len
    THEN HashedPath(original_filename, index)
    ELSE PlainPath(original_filename)

\* line 198: natsorted compares the digit runs of the paths as numbers: names
\* of the archive by page number (then length), md5 names by the name hashed
\* and then by index; an md5 name (hex digits) sorts before a path in a
\* subdirectory ("ch1/..."), and that before a page name.
NatKey(p) ==
  <<(IF p.hashed THEN 0 ELSE IF p.name.dir # "" THEN 1 ELSE 2),
    p.name.id, p.name.len,
    (IF p.hashed THEN p.index ELSE 0),
    (IF p.name.dir # "" THEN 0 ELSE 1)>>
NatLess(p, q) ==
  LET a == NatKey(p)
      b == NatKey(q)
  IN  \E i \in 1 .. 5 : a[i] < b[i] /\ \A j \in 1 .. (i - 1) : a[j] = b[j]

RECURSIVE NatInsert(_, _)
NatInsert(l, p) ==
  IF l = <<>> THEN <<p>>
  ELSE IF NatLess(p, Head(l)) THEN <<p>> \o l
  ELSE <<Head(l)>> \o NatInsert(Tail(l), p)

RECURSIVE natsorted(_)
natsorted(l) ==
  IF l = <<>> THEN <<>>
  ELSE NatInsert(natsorted(SubSeq(l, 1, Len(l) - 1)), l[Len(l)])

\* lines 189-193 without the inner try: the exception ends the loop
OnEntryError_abort == "abort"
\* lines 189-193: the exception of one entry is caught, the loop goes on
OnEntryError == "continue"

\* lines 194-197 without the except clauses: the exception leaves the function
OnOpenError_raise == "raise"
\* lines 194-197: the exception of opening the archive is caught and reported
OnOpenError == "report"

\* The record of a retrieval that has ended, kept for the last two
RunRecord(result) ==
  [pages |-> result,
   downloaded |-> (dl_result[1] = "True"),
   requests |-> http_requests[1],
   extracted |-> extracted_now]
LogRun(result) ==
  LET l == Append(runs, RunRecord(result))
  IN  IF Len(l) > 2 THEN Tail(l) ELSE l

\* The extensions a URL of the model ends with, as written in the URL
ExtChoices == {".zip", ".CBR", ".txt", ""}
\* str.lower() on these extensions
lower(ext) == IF ext = ".CBR" THEN ".cbr" ELSE ext
\* lines 412-413 without the check
SupportedExt_any(ext) == TRUE
\* lines 412-413: file_ext in ['.zip', '.cbz', '.rar', '.cbr']
SupportedExt(ext) == lower(ext) \in {".zip", ".cbz", ".rar", ".cbr"}

\* lines 528-548 and 391-421: the page is drawn; the reader checks the
\* extension of the selected URL and starts the retrieval
ShowPage ==
  /\ pc = "view"
  /\ IF current_mode = "reader" /\ selected_manga_url # None
       THEN IF SupportedExt(url_ext[selected_manga_url])
              THEN /\ pc' = "download"
                   /\ dl_pc' = [dl_pc EXCEPT ![1] = "start"]
                   /\ dl_result' = [dl_result EXCEPT ![1] = "pending"]
                   /\ bytes_downloaded' = [bytes_downloaded EXCEPT ![1] = 0]
                   /\ http_requests' = [http_requests EXCEPT ![1] = 0]
                   /\ progress' = [progress EXCEPT ![1] = <<>>]
                   /\ format_error' = FALSE
                   /\ UNCHANGED <<pages, runs>>
              ELSE \* lines 414-415: st.error and return
                   /\ pc' = "idle"
                   /\ format_error' = TRUE
                   /\ pages' = NoPages
                   /\ runs' = LogRun(NoPages)
                   /\ UNCHANGED dlVars
       ELSE /\ pc' = "idle"
            /\ format_error' = FALSE
            /\ UNCHANGED <<dlVars, pages, runs>>
  /\ ex_index' = 0
  /\ image_files' = <<>>
  /\ warnings' = {}
  /\ extract_error' = FALSE
  /\ extract_raised' = FALSE
  /\ extracted_now' = {}
  /\ UNCHANGED <<cacheVars, now, sessionVars, sweepVars, evictVars, remoteVars>>

\* lines 420-421: download_file has returned
AfterDownload ==
  /\ pc = "download"
  /\ dl_pc[1] = "done"
  /\ dl_pc' = [dl_pc EXCEPT ![1] = "off"]
  /\ IF dl_result[1] = "True"
       THEN /\ pc' = "open"
            /\ UNCHANGED <<pages, runs>>
       ELSE /\ pc' = "idle"
            /\ pages' = NoPages
            /\ runs' = LogRun(NoPages)
  /\ UNCHANGED <<cacheVars, now, sessionVars, sweepVars, evictVars, remoteVars,
                 dl_result, bytes_downloaded, http_requests, progress, exVars,
                 format_error>>

\* lines 172-175 and 194-198, 426-428: the extraction directory is made and the
\* archive opened; an invalid container ends the extraction with an empty list
ExtractOpen ==
  /\ pc = "open"
  /\ exdir' = IF exdir[SavePath] = NoFile
                THEN [exdir EXCEPT ![SavePath] = File(0, now)]
                ELSE exdir
  /\ IF zip_valid
       THEN /\ pc' = "extract"
            /\ ex_index' = 1
            /\ UNCHANGED <<extract_error, extract_raised, pages, runs>>
       ELSE IF OnOpenError = "report"
         THEN /\ extract_error' = TRUE
              /\ pc' = "idle"
              /\ pages' = IF natsorted(image_files) = <<>> THEN NoPages
                          ELSE Pages(natsorted(image_files))
              /\ runs' = LogRun(pages')
              /\ UNCHANGED <<ex_index, extract_raised>>
         ELSE /\ extract_raised' = TRUE
              /\ pc' = "crashed"
              /\ UNCHANGED <<ex_index, extract_error, pages, runs>>
  /\ UNCHANGED <<archive, exfiles, tmpfile, now, sessionVars, sweepVars,
                 evictVars, remoteVars, dlVars, image_files, warnings,
                 extracted_now, format_error>>

\* EntryBytes: the size of one extracted file
EntryBytes == HalfBudget

\* The extraction directory after a file was created in it, or renamed
DirWith(dir, files_before, files_after) ==
  IF files_after = files_before THEN dir
  ELSE File(dir.size
              + EntryBytes * (Cardinality(files_after) - Cardinality(files_before)),
            now)

\* line 182 taking every entry for missing
AlreadyExtracted_never(path, files) == FALSE
\* line 182: os.path.exists(extracted_path)
AlreadyExtracted(path, files) == path \in files

\* lines 176-193: one entry of archive.infolist()
ExtractEntry ==
  /\ pc = "extract"
  /\ ex_index <= Len(zip_entries)
  /\ LET e == zip_entries[ex_index]
         filename == e.filename
         index == ex_index - 1
         files == exfiles[SavePath]
         extracted_path == get_safe_filename(filename, index)
         original_path == PlainPath(filename)
         todo == is_valid_image(filename)
                   /\ ~AlreadyExtracted(extracted_path, files)
         raises == todo /\ e.fault # "none"
         \* line 183: archive.extract writes the entry under its own name
         written == IF todo /\ e.fault # "clean"
                      THEN files \cup {original_path} ELSE files
         \* lines 184-186: the file is renamed to its safe name
         renamed == IF todo /\ ~raises /\ original_path # extracted_path
                       /\ original_path \in written
                      THEN (written \ {original_path}) \cup {extracted_path}
                      ELSE written
     IN  /\ exfiles' = [exfiles EXCEPT ![SavePath] = renamed]
         /\ exdir' = [exdir EXCEPT ![SavePath] =
                        IF renamed # written THEN File(DirWith(@, files, written).size, now)
                        ELSE DirWith(@, files, written)]
         /\ extracted_now' = IF todo /\ ~raises
                               THEN extracted_now \cup {ex_index}
                               ELSE extracted_now
         /\ warnings' = IF raises THEN warnings \cup {ex_index} ELSE warnings
         \* lines 187-188
         /\ image_files' = IF is_valid_image(filename) /\ ~raises
                              /\ extracted_path \in renamed
                             THEN Append(image_files, extracted_path)
                             ELSE image_files
         /\ ex_index' = IF raises /\ OnEntryError = "abort"
                          THEN Len(zip_entries) + 1
                          ELSE ex_index + 1
  /\ UNCHANGED <<archive, tmpfile, now, sessionVars, pc, sweepVars, evictVars,
                 remoteVars, dlVars, extract_error, extract_raised, runVars>>

\* lines 198 and 426-436: the sorted list goes back to the reader
ExtractReturn ==
  /\ pc = "extract"
  /\ ex_index > Len(zip_entries)
  /\ pages' = IF natsorted(image_files) = <<>> THEN NoPages
              ELSE Pages(natsorted(image_files))
  /\ runs' = LogRun(pages')
  /\ pc' = "idle"
  /\ UNCHANGED <<cacheVars, now, sessionVars, sweepVars, evictVars, remoteVars,
                 dlVars, exVars, format_error>>

\* The page is run again a moment later with nothing else changed, once
RetrieveAgain ==
  /\ pc = "idle"
  /\ Len(runs) < 2
  /\ pc' = "view"
  /\ now' = now + 1
  /\ UNCHANGED <<cacheVars, sessionVars, sweepVars, evictVars, remoteVars,
                 dlVars, exVars, runVars>>

\* ------------------------------------------------------ the session's runs
\* lines 499-503: a rerun of the script starts main() again, with the startup
\* sweeps first; the locals of the run before are gone
StartRun ==
  /\ pc' = "account"
  /\ dl_pc' = [s \in Sessions |-> "off"]
  /\ dl_result' = [s \in Sessions |-> "pending"]
  /\ bytes_downloaded' = [s \in Sessions |-> 0]
  /\ http_requests' = [s \in Sessions |-> 0]
  /\ progress' = [s \in Sessions |-> <<>>]
  /\ ex_index' = 0
  /\ image_files' = <<>>
  /\ warnings' = {}
  /\ extract_error' = FALSE
  /\ extract_raised' = FALSE
  /\ extracted_now' = {}
  /\ runs' = <<>>
  /\ format_error' = FALSE
  /\ manga_items_by_hash' = EmptyDict
  /\ items_order' = <<>>
  /\ total_cache_size_bytes' = 0
  /\ sorted_manga_items' = <<>>
  /\ evicted' = <<>>
  /\ evict_failed' = {}
  /\ cleanup_error' = FALSE
  /\ swept' = {}

\* lines 367-370: the button "read" of a title of the list
ReadManga(url) ==
  /\ pc = "idle"
  /\ current_mode = "list"
  /\ \E i \in 1 .. Len(manga_urls) : manga_urls[i].url = url
  /\ selected_manga_url' = url
  /\ current_mode' = "reader"
  /\ StartRun
  /\ UNCHANGED <<cacheVars, now, manga_urls, remoteVars, pages>>

\* lines 400-404 and 479-483: the button "back to the list"
BackToList ==
  /\ pc = "idle"
  /\ current_mode = "reader"
  /\ current_mode' = "list"
  /\ StartRun
  /\ UNCHANGED <<cacheVars, now, selected_manga_url, manga_urls, remoteVars,
                 pages>>

\* lines 463-469: the buttons "load more" and "load all" rerun the reader
LoadMore ==
  /\ pc = "idle"
  /\ current_mode = "reader"
  /\ StartRun
  /\ UNCHANGED <<cacheVars, now, sessionVars, remoteVars, pages>>

\* Time passes between two runs of the page: the threshold of the TTL sweep,
\* or a second more
Tick ==
  /\ pc = "idle"
  /\ \E d \in {ttl_seconds, ttl_seconds + 1} :
       /\ now + d <= MaxTicks * (ttl_seconds + 1)
       /\ now' = now + d
  /\ UNCHANGED <<cacheVars, sessionVars, pc, sweepVars, evictVars, remoteVars,
                 dlVars, exVars, runVars>>

\* --------------------------------------------------------- the title list
\* line 17
MAX_UPLOADS_LENGTH == 12

\* A title of the list (of its fields only the URL matters here)
Manga(url) == [url |-> url]
\* The list that holds every URL of the model once, in order
AllListed == [i \in 1 .. NKeys |-> Manga(i)]
\* lines 262 and 286: [manga['url'] for manga in st.session_state.manga_urls]
ListedUrls(list) == {list[i].url : i \in 1 .. Len(list)}

\* lines 258-270, the button "add" of the list page
add_manga_url(url) ==
  /\ pc = "idle"
  /\ current_mode = "list"
  /\ manga_urls' =
       IF Len(manga_urls) >= MAX_UPLOADS_LENGTH
         THEN manga_urls
         ELSE IF url \notin ListedUrls(manga_urls) /\ SupportedExt(url_ext[url])
           THEN Append(manga_urls, Manga(url))
           ELSE manga_urls
  /\ UNCHANGED <<cacheVars, now, selected_manga_url, current_mode, pc,
                 sweepVars, evictVars, remoteVars, dlVars, exVars, runVars>>

\* lines 272-273, the button "delete" of a title
remove_manga_url(url) ==
  /\ pc = "idle"
  /\ current_mode = "list"
  /\ url \in ListedUrls(manga_urls)
  /\ manga_urls' = SelectSeq(manga_urls, LAMBDA manga : manga.url # url)
  /\ UNCHANGED <<cacheVars, now, selected_manga_url, current_mode, pc,
                 sweepVars, evictVars, remoteVars, dlVars, exVars, runVars>>

\* lines 288-294: the loop over the imported titles; existing_urls is computed
\* once, before the loop
RECURSIVE ImportLoop(_, _, _)
ImportLoop(list, imported, existing_urls) ==
  IF imported = <<>> THEN list
  ELSE IF Len(list) >= MAX_UPLOADS_LENGTH THEN list
  ELSE IF Head(imported).url \notin existing_urls
    THEN ImportLoop(Append(list, Head(imported)), Tail(imported), existing_urls)
    ELSE ImportLoop(list, Tail(imported), existing_urls)

\* lines 281-298 and 307-313: import_manga_list, called by load_from_share_url
\* with the decoded share parameter of the page
import_manga_list(imported) ==
  /\ pc = "idle"
  /\ manga_urls' = ImportLoop(manga_urls, imported, ListedUrls(manga_urls))
  /\ UNCHANGED <<cacheVars, now, selected_manga_url, current_mode, pc,
                 sweepVars, evictVars, remoteVars, dlVars, exVars, runVars>>

\* ------------------------------------- one run of manage_cache_size on an
\* arbitrary cache content

\* the locals of manage_cache_size before it runs
EvictIdle ==
  /\ manga_items_by_hash = EmptyDict
  /\ items_order = <<>>
  /\ total_cache_size_bytes = 0
  /\ sorted_manga_items = <<>>
  /\ evicted = <<>>
  /\ evict_failed = {}

\* the other parts of the state while one part runs alone
SweepIdle == cleanup_error = FALSE /\ swept = {}
RemoteFixed ==
  /\ url_ext = [u \in Urls |-> ".zip"]
  /\ resource_body = ChunkBytes
  /\ content_length = 0
  /\ zip_valid = TRUE
  /\ zip_entries = <<>>
DownloadIdle ==
  /\ dl_pc = [s \in Sessions |-> "off"]
  /\ dl_result = [s \in Sessions |-> "pending"]
  /\ bytes_downloaded = [s \in Sessions |-> 0]
  /\ http_requests = [s \in Sessions |-> 0]
  /\ progress = [s \in Sessions |-> <<>>]
ExtractIdle ==
  /\ ex_index = 0
  /\ image_files = <<>>
  /\ warnings = {}
  /\ extract_error = FALSE
  /\ extract_raised = FALSE
  /\ extracted_now = {}
RunsIdle == pages = NoPages /\ runs = <<>> /\ format_error = FALSE

InitEvict ==
  /\ archive \in [Keys -> FileStates]
  /\ exdir \in [Keys -> DirStates]
  /\ exfiles = [k \in Keys |-> {}]
  /\ tmpfile = [s \in Sessions |-> NoFile]
  /\ now = NewMtime
  /\ selected_manga_url \in UrlOrNone
  /\ current_mode = IF selected_manga_url = None THEN "list" ELSE "reader"
  /\ manga_urls = AllListed
  /\ pc = "account"
  /\ SweepIdle
  /\ EvictIdle
  /\ RemoteFixed
  /\ DownloadIdle
  /\ ExtractIdle
  /\ RunsIdle

NextEvict == Account \/ EvictItem \/ EvictEnd

SpecEvict == InitEvict /\ [][NextEvict]_vars

\* ------------------------------ one run of cleanup_cache on an arbitrary
\* cache content, at a time that puts the files around the threshold
InitTTL ==
  /\ archive \in [Keys -> {NoFile} \cup {File(HalfBudget, m) : m \in Mtimes}]
  /\ exdir \in [Keys -> DirStates]
  /\ exfiles = [k \in Keys |-> {}]
  /\ tmpfile \in {[s \in Sessions |-> IF s = 1 THEN f ELSE NoFile] :
                    f \in {NoFile} \cup {File(HalfBudget, m) : m \in Mtimes}}
  /\ now \in {ttl_seconds + OldMtime, ttl_seconds + NewMtime,
               ttl_seconds + NewMtime + 1}
  /\ selected_manga_url \in UrlOrNone
  /\ current_mode = IF selected_manga_url = None THEN "list" ELSE "reader"
  /\ manga_urls = AllListed
  /\ pc = "cleanup"
  /\ SweepIdle
  /\ EvictIdle
  /\ RemoteFixed
  /\ DownloadIdle
  /\ ExtractIdle
  /\ RunsIdle

NextTTL == CleanupCache

SpecTTL == InitTTL /\ [][NextTTL]_vars

\* --------------------------------------- download_file called once, and by
\* two sessions at once, for one URL
InitDownload ==
  /\ selected_manga_url \in Urls
  /\ current_mode = "reader"
  /\ manga_urls = AllListed
  /\ archive \in {[k \in Keys |-> IF k = md5(selected_manga_url) THEN f ELSE NoFile] :
                    f \in {NoFile, File(max_bytes, OldMtime)}}
  /\ resource_body \in IF archive[md5(selected_manga_url)] = NoFile
                         THEN BodyChoices ELSE {max_bytes}
  /\ content_length \in LengthChoices
  /\ url_ext = [u \in Urls |-> ".zip"]
  /\ zip_valid = TRUE
  /\ zip_entries = <<>>
  /\ exdir = [k \in Keys |-> NoFile]
  /\ exfiles = [k \in Keys |-> {}]
  /\ tmpfile = [s \in Sessions |-> NoFile]
  /\ now = NewMtime
  /\ pc = "download"
  /\ dl_pc = [s \in Sessions |-> IF s = 1 THEN "start" ELSE "off"]
  /\ dl_result = [s \in Sessions |-> "pending"]
  /\ bytes_downloaded = [s \in Sessions |-> 0]
  /\ http_requests = [s \in Sessions |-> 0]
  /\ progress = [s \in Sessions |-> <<>>]
  /\ SweepIdle
  /\ EvictIdle
  /\ ExtractIdle
  /\ RunsIdle

NextDownload == DlStart(1) \/ DlRequest(1) \/ DlChunk(1) \/ DlRename(1)

SpecDownload == InitDownload /\ [][NextDownload]_vars

InitDownload2 ==
  /\ selected_manga_url \in Urls
  /\ current_mode = "reader"
  /\ manga_urls = AllListed
  /\ archive = [k \in Keys |-> NoFile]
  /\ resource_body \in BodyChoices
  /\ content_length \in LengthChoices
  /\ url_ext = [u \in Urls |-> ".zip"]
  /\ zip_valid = TRUE
  /\ zip_entries = <<>>
  /\ exdir = [k \in Keys |-> NoFile]
  /\ exfiles = [k \in Keys |-> {}]
  /\ tmpfile = [s \in Sessions |-> NoFile]
  /\ now = NewMtime
  /\ pc = "download"
  /\ dl_pc = [s \in Sessions |-> "start"]
  /\ dl_result = [s \in Sessions |-> "pending"]
  /\ bytes_downloaded = [s \in Sessions |-> 0]
  /\ http_requests = [s \in Sessions |-> 0]
  /\ progress = [s \in Sessions |-> <<>>]
  /\ SweepIdle
  /\ EvictIdle
  /\ ExtractIdle
  /\ RunsIdle

NextDownload2 ==
  \E s \in Sessions : DlStart(s) \/ DlRequest(s) \/ DlChunk(s) \/ DlRename(s)

SpecDownload2 == InitDownload2 /\ [][NextDownload2]_vars

\* ------------------------------ the retrieval of one URL, run twice in a
\* row, for an arbitrary archive behind the URL
RECURSIVE SeqsUpTo(_, _)
SeqsUpTo(S, n) ==
  IF n = 0 THEN {<<>>}
  ELSE LET shorter == SeqsUpTo(S, n - 1)
       IN  shorter \cup {Append(l, x) : l \in shorter, x \in S}

InitRetrieve ==
  /\ selected_manga_url = 1
  /\ current_mode = "reader"
  /\ manga_urls = AllListed
  /\ archive = [k \in Keys |-> NoFile]
  /\ exdir = [k \in Keys |-> NoFile]
  /\ exfiles = [k \in Keys |-> {}]
  /\ tmpfile = [s \in Sessions |-> NoFile]
  /\ now = NewMtime
  /\ url_ext \in {[u \in Urls |-> IF u = selected_manga_url THEN e ELSE ".zip"] :
                    e \in ExtChoices}
  /\ resource_body = ChunkBytes
  /\ content_length \in {0, ChunkBytes}
  /\ zip_valid \in BOOLEAN
  /\ zip_entries \in IF zip_valid THEN SeqsUpTo(EntryChoices, MaxEntries) ELSE {<<>>}
  /\ pc = "view"
  /\ SweepIdle
  /\ EvictIdle
  /\ DownloadIdle
  /\ ExtractIdle
  /\ RunsIdle

NextRetrieve ==
  \/ ShowPage
  \/ DlStart(1) \/ DlRequest(1) \/ DlChunk(1) \/ DlRename(1)
  \/ AfterDownload
  \/ ExtractOpen
  \/ ExtractEntry
  \/ ExtractReturn
  \/ RetrieveAgain

SpecRetrieve == InitRetrieve /\ [][NextRetrieve]_vars

\* ---------------------------------- one session, from an empty cache: any
\* sequence of page runs, each one manage_cache_size, cleanup_cache and the page
InitSession ==
  /\ archive = [k \in Keys |-> NoFile]
  /\ exdir = [k \in Keys |-> NoFile]
  /\ exfiles = [k \in Keys |-> {}]
  /\ tmpfile = [s \in Sessions |-> NoFile]
  /\ now = 0
  /\ selected_manga_url = None
  /\ current_mode = "list"
  /\ manga_urls = AllListed
  /\ pc = "idle"
  /\ url_ext = [u \in Urls |-> ".zip"]
  /\ resource_body = ChunkBytes
  /\ content_length = 0
  /\ zip_valid = TRUE
  /\ zip_entries = <<Entry(FileName(1, max_filename_len, ".png"), "none")>>
  /\ SweepIdle
  /\ EvictIdle
  /\ DownloadIdle
  /\ ExtractIdle
  /\ RunsIdle

NextSession ==
  \/ \E url \in Urls : ReadManga(url)
  \/ BackToList
  \/ LoadMore
  \/ Tick
  \/ Account
  \/ EvictItem
  \/ EvictEnd
  \/ CleanupCache
  \/ ShowPage
  \/ DlStart(1) \/ DlRequest(1) \/ DlChunk(1) \/ DlRename(1)
  \/ AfterDownload
  \/ ExtractOpen
  \/ ExtractEntry
  \/ ExtractReturn

SpecSession == InitSession /\ [][NextSession]_vars

\* ------------------------------------------------ manage_cache_size: claims
\* What is on disk for key k, in bytes
DiskSize(k) ==
  (IF archive[k] # NoFile THEN archive[k].size ELSE 0)
  + (IF exdir[k] # NoFile THEN exdir[k].size ELSE 0)

RECURSIVE SumDisk(_)
SumDisk(S) ==
  IF S = {} THEN 0
  ELSE LET k == CHOOSE x \in S : TRUE IN DiskSize(k) + SumDisk(S \ {k})

DiskTotal == SumDisk(Keys)
ActiveDiskSize ==
  IF selected_manga_url # None THEN DiskSize(md5(selected_manga_url)) ELSE 0
ManageFinished == pc = "cleanup"

\* C1: no step of manage_cache_size removes (or changes) the archive file or the
\* extraction directory of the active item, the item whose key is the digest of
\* the session's selected URL, whatever the cache content, the listing order
\* and the sizes.
C1_ActiveItemKeptStep ==
  (pc \in {"account", "evict"} /\ selected_manga_url # None) =>
     /\ archive'[md5(selected_manga_url)] = archive[md5(selected_manga_url)]
     /\ exdir'[md5(selected_manga_url)] = exdir[md5(selected_manga_url)]
C1_ActiveItemKept == [][C1_ActiveItemKeptStep]_vars

\* C1 witness: the run is over, it deleted some item, the active item alone
\* exceeds the budget and both its files are still on disk.
C1_Witness ==
  /\ ManageFinished
  /\ selected_manga_url # None
  /\ Len(evicted) >= 1
  /\ archive[md5(selected_manga_url)] # NoFile
  /\ exdir[md5(selected_manga_url)] # NoFile
  /\ ActiveDiskSize > cache_limit_bytes

\* C3: after manage_cache_size finishes with no deletion error, if the active
\* item's size (0 when no item is active) is at most the budget, the archive
\* files and extraction directories left in the cache root total at most the
\* budget, for every listing order.
C3_BudgetMetAfterEviction ==
  (ManageFinished /\ evict_failed = {} /\ ActiveDiskSize <= cache_limit_bytes)
     => DiskTotal <= cache_limit_bytes

\* ---------------------------------------------------- cleanup_cache: claims
\* C8: one run of cleanup_cache with no filesystem error removes every
\* top-level regular file last modified more than 1800 seconds ago, archive
\* file or not, of the active item or not, removes no file whose age is at
\* most 1800 seconds, and leaves every directory as it is.
C8_TTLSweepStep ==
  (pc = "cleanup" /\ pc' = "view" /\ ~cleanup_error') =>
     /\ \A k \in Keys :
          IF archive[k] # NoFile /\ now - archive[k].mtime > 1800
            THEN archive'[k] = NoFile
            ELSE archive'[k] = archive[k]
     /\ \A t \in Sessions :
          IF tmpfile[t] # NoFile /\ now - tmpfile[t].mtime > 1800
            THEN tmpfile'[t] = NoFile
            ELSE tmpfile'[t] = tmpfile[t]
     /\ exdir' = exdir
C8_TTLSweep == [][C8_TTLSweepStep]_vars

\* C8 witness: a run without error has removed the active item's archive file
\* and a temporary file, kept an archive file that is exactly 1800 seconds old,
\* and the active item's extraction directory, just as old as the archive was,
\* is still there.
C8_Witness ==
  /\ pc = "view"
  /\ ~cleanup_error
  /\ selected_manga_url # None
  /\ <<"archive", md5(selected_manga_url)>> \in swept
  /\ <<"tmp", 1>> \in swept
  /\ exdir[md5(selected_manga_url)] # NoFile
  /\ now - exdir[md5(selected_manga_url)].mtime > 1800
  /\ \E k \in Keys : archive[k] # NoFile /\ now - archive[k].mtime = 1800

\* ---------------------------------------------------- download_file: claims
\* The destination holds the complete body
DestComplete == archive[SavePath].size = resource_body

\* C4: a download_file call that ends in failure (request or connection error,
\* declared length over the cap, received length over the cap) leaves no file
\* at the destination, and at every step of any call the destination is either
\* absent or holds the complete body, never a part of it.
C4_FailureLeavesNoFile ==
  /\ dl_result[1] = "False" => archive[SavePath] = NoFile
  /\ archive[SavePath] = NoFile \/ DestComplete

\* C4 witness: the call failed after part of the body was written (the stream
\* broke, or the received length passed the cap), and the destination is absent.
C4_Witness ==
  /\ dl_result[1] = "False"
  /\ tmpfile[1] # NoFile
  /\ tmpfile[1].size > 0
  /\ archive[SavePath] = NoFile

C7_ConcurrentDownloadsSafe ==
  /\ archive[SavePath] = NoFile \/ DestComplete
  /\ (\A s \in Sessions : dl_result[s] = "True")
       => archive[SavePath] # NoFile /\ DestComplete

\* C7 witness: both sessions found the destination absent, both streamed the
\* body into their own temporary file and renamed it, and the complete file is
\* at the destination.
C7_Witness ==
  /\ \A s \in Sessions : dl_result[s] = "True" /\ http_requests[s] = 1
  /\ archive[SavePath] # NoFile
  /\ DestComplete

\* -------------------------------------------------- extract_archive: claims
RECURSIVE Range(_)
Range(l) == IF l = <<>> THEN {} ELSE {Head(l)} \cup Range(Tail(l))

\* The retrieval has gone through extract_archive and is back
Extracted == pc = "idle" /\ runs # <<>> /\ runs[Len(runs)].downloaded

\* C6: running the retrieval twice in a row with nothing else changing the
\* cache gives the same ordered path list both times, and the second run sends
\* no HTTP request and extracts no entry the first run extracted.
C6_RetrievalIdempotent ==
  (pc = "idle" /\ Len(runs) = 2 /\ runs[1].downloaded) =>
     /\ runs[2].pages = runs[1].pages
     /\ runs[2].requests = 0
     /\ runs[2].extracted \cap runs[1].extracted = {}

\* C9: when the extraction of an image entry raises, the other image entries
\* are still processed: every image entry whose extraction did not raise (it
\* was extracted, or its file was on disk already) is in the returned list.
C9_BadEntrySkippedOnly ==
  (Extracted /\ zip_valid) =>
     /\ ex_index = Len(zip_entries) + 1
     /\ \A i \in 1 .. Len(zip_entries) :
          (is_valid_image(zip_entries[i].filename) /\ i \notin warnings) =>
             /\ get_safe_filename(zip_entries[i].filename, i - 1) \in exfiles[SavePath]
             /\ get_safe_filename(zip_entries[i].filename, i - 1) \in Range(pages.list)

\* C9 witness: the first entry raised, a later image entry was extracted in
\* the same run and is in the returned list.
C9_Witness ==
  /\ Extracted
  /\ 1 \in warnings
  /\ \E i \in 2 .. Len(zip_entries) :
       /\ i \in extracted_now
       /\ get_safe_filename(zip_entries[i].filename, i - 1) \in Range(pages.list)

\* C10: when the archive is not a valid container, extract_archive returns an
\* empty list and reports the error, no exception reaches its caller, and the
\* retrieval ends with no pages.
C10_CorruptArchiveNoPages ==
  (~zip_valid /\ pc \notin {"view", "download", "open"}) =>
     /\ pc = "idle"
     /\ ~extract_raised
     /\ runs # <<>>
     /\ runs[Len(runs)].downloaded => (extract_error /\ image_files = <<>>)
     /\ pages = NoPages

\* C10 witness: the archive was downloaded, is not a valid container, and the
\* retrieval is over with the error reported and no pages.
C10_Witness ==
  /\ ~zip_valid
  /\ Extracted
  /\ extract_error
  /\ pages = NoPages
  /\ exdir[SavePath] # NoFile

\* ------------------------------------------------------ the session: claims
\* C2: across the page runs of a session, no step of manage_cache_size or of
\* cleanup_cache removes the archive file or the extraction directory of the
\* item the session is reading, however old these are.
C2_SweepsSpareReadItemStep ==
  (/\ pc \in {"account", "evict", "cleanup"}
   /\ current_mode = "reader"
   /\ selected_manga_url # None) =>
     /\ archive[SavePath] # NoFile => archive'[SavePath] # NoFile
     /\ exdir[SavePath] # NoFile => exdir'[SavePath] # NoFile
C2_SweepsSpareReadItem == [][C2_SweepsSpareReadItemStep]_vars

\* ------------------------------------------------------- the reader: claims
\* C11: when the extension of the selected URL is none of .zip, .cbz, .rar,
\* .cbr, the retrieval ends with the failure reported and no pages, and it
\* sends no HTTP request and creates no archive file, no temporary file and no
\* extraction directory.
C11_UnsupportedUrlRejected ==
  (lower(url_ext[selected_manga_url]) \notin {".zip", ".cbz", ".rar", ".cbr"}) =>
     /\ pc \in {"view", "idle"}
     /\ pc = "idle" => (format_error /\ pages = NoPages)
     /\ http_requests[1] = 0
     /\ \A k \in Keys : archive[k] = NoFile /\ exdir[k] = NoFile
     /\ \A t \in Sessions : tmpfile[t] = NoFile

\* C11 witness: the reader ran twice for a URL ending in .txt and reported the
\* failure.
C11_Witness ==
  /\ url_ext[selected_manga_url] = ".txt"
  /\ pc = "idle"
  /\ format_error
  /\ Len(runs) = 2

\* C12: during one download_file call the values passed to the progress bar
\* never decrease and every one of them lies in [0, 1], whatever the declared
\* Content-Length (absent or present) and the body length.
C12_ProgressMonotoneInUnit ==
  \A i \in 1 .. Len(progress[1]) :
     /\ 0 <= progress[1][i]
     /\ progress[1][i] <= ProgressDen
     /\ i > 1 => progress[1][i - 1] <= progress[1][i]

\* ------------------------------------- manage_cache_size: accounting claims
\* The keys that have an archive file or an extraction directory on disk
KeysOnDisk == {k \in Keys : archive[k] # NoFile \/ exdir[k] # NoFile}
\* The newest modification time among the paths of key k that exist
DiskMtime(k) ==
  IF archive[k] # NoFile /\ exdir[k] # NoFile
    THEN Max(archive[k].mtime, exdir[k].mtime)
    ELSE IF archive[k] # NoFile THEN archive[k].mtime ELSE exdir[k].mtime

\* C13: whatever the cache content and the order of the listing, the
\* accounting pass ends with one record per key on disk, the record names the
\* key's archive file when there is one, and its total size is the size of the
\* archive file (if present) plus the size of the extraction directory (if
\* present).
C13_AccountingMergesStep ==
  (pc = "account" /\ pc' # "account") =>
     /\ DOMAIN manga_items_by_hash' = KeysOnDisk
     /\ \A k \in KeysOnDisk :
          /\ archive[k] # NoFile => manga_items_by_hash'[k].archive_path = k
          /\ manga_items_by_hash'[k].total_size = DiskSize(k)
C13_AccountingMerges == [][C13_AccountingMergesStep]_vars

\* C19: whatever the cache content and the order of the listing, the
\* modification time the accounting pass records for a key is the newest of the
\* modification times of its archive file and its extraction directory, those
\* that exist.
C19_RecordedMtimeIsMaxStep ==
  (pc = "account" /\ pc' # "account") =>
     \A k \in KeysOnDisk \cap DOMAIN manga_items_by_hash' :
        manga_items_by_hash'[k].mtime = DiskMtime(k)
C19_RecordedMtimeIsMax == [][C19_RecordedMtimeIsMaxStep]_vars

\* C14: whatever the order of the listing, an item whose eviction completed
\* without a filesystem error has neither its archive file nor its extraction
\* directory on disk.
C14_EvictedItemGone ==
  \A i \in 1 .. Len(evicted) :
     archive[evicted[i]] = NoFile /\ exdir[evicted[i]] = NoFile

\* C15: the eviction loop removes a path of an item only while the running
\* total is above the budget, only of an item that is not being read, and only
\* when every item not being read whose recorded modification time is strictly
\* older has been evicted or has failed to delete.
C15_OldestFirstNoMoreStep ==
  pc = "evict" =>
     \A k \in Keys :
        (archive'[k] # archive[k] \/ exdir'[k] # exdir[k]) =>
           /\ total_cache_size_bytes > cache_limit_bytes
           /\ k \in DOMAIN manga_items_by_hash
           /\ ~manga_items_by_hash[k].is_currently_reading
           /\ \A j \in DOMAIN manga_items_by_hash :
                (/\ ~manga_items_by_hash[j].is_currently_reading
                 /\ manga_items_by_hash[j].mtime < manga_items_by_hash[k].mtime)
                  => j \in Range(evicted) \cup evict_failed
C15_OldestFirstNoMore == [][C15_OldestFirstNoMoreStep]_vars

\* C15 witness: the run is over; it evicted the older of two items that were
\* not being read, which brought the total to the budget or below, and the
\* newer one is still on disk.
C15_Witness ==
  /\ ManageFinished
  /\ Len(evicted) = 1
  /\ evict_failed = {}
  /\ total_cache_size_bytes <= cache_limit_bytes
  /\ \E j \in DOMAIN manga_items_by_hash :
       /\ ~manga_items_by_hash[j].is_currently_reading
       /\ j # evicted[1]
       /\ manga_items_by_hash[j].mtime > manga_items_by_hash[evicted[1]].mtime
       /\ j \in KeysOnDisk

\* --------------------------------------------- errors of the sweeps: claims
\* The size-based eviction contains a deletion error: a run in which some
\* deletion raised still ends only when the total is at the budget or below, or
\* when every item not being read has been evicted or has failed to delete.
EvictionErrorContained ==
  (ManageFinished /\ evict_failed # {}) =>
     \/ total_cache_size_bytes <= cache_limit_bytes
     \/ \A k \in DOMAIN manga_items_by_hash :
          ~manga_items_by_hash[k].is_currently_reading
            => k \in Range(evicted) \cup evict_failed

\* C16: a filesystem error while the TTL sweep deletes one candidate is
\* contained: every other file past the threshold is still removed in the same
\* run, so at most one file past the threshold, the one whose deletion raised,
\* is left when the run ends.
C16_SweepErrorContainedStep ==
  (pc = "cleanup" /\ pc' = "view") =>
     Cardinality({f \in TopLevelFiles : now - FileAt(f).mtime > 1800} \ swept') <= 1
C16_SweepErrorContained == [][C16_SweepErrorContainedStep]_vars

\* C17: when download_file gives up in the middle of the stream because no
\* Content-Length was declared and the bytes received exceed the cap, the
\* temporary file it created in the cache root is gone once it has returned.
C17_OverCapAbortDropsTmp ==
  (/\ dl_pc[1] = "done"
   /\ dl_result[1] = "False"
   /\ content_length = 0
   /\ bytes_downloaded[1] > max_bytes)
     => tmpfile[TmpName(1)] = NoFile

\* -------------------------------------------------------- safe names: claims
\* C18: every image entry that extract_archive stored is on disk and in the
\* returned list under its safe name, directly in the extraction directory:
\* md5(original name)_index.ext when the original name is longer than 50
\* characters, and otherwise the base name of the entry, without the
\* directories it has in the archive.
C18_SafeNameDirectlyInDir ==
  (Extracted /\ zip_valid) =>
     \A i \in 1 .. Len(zip_entries) :
        LET filename == zip_entries[i].filename
            safe == IF filename.len > 50
                      THEN HashedPath(filename, i - 1)
                      ELSE PlainPath(basename(filename))
        IN  (is_valid_image(filename) /\ i \notin warnings) =>
               /\ safe \in exfiles[SavePath]
               /\ safe \in Range(pages.list)

\* ------------------------------------------- viewing a cached item: claims
\* The archive file of the selected URL, its extraction directory and, under
\* the name extract_archive looks for, every image entry are on disk
AllCached ==
  /\ archive[SavePath] # NoFile
  /\ exdir[SavePath] # NoFile
  /\ \A i \in 1 .. Len(zip_entries) :
       is_valid_image(zip_entries[i].filename) =>
          get_safe_filename(zip_entries[i].filename, i - 1) \in exfiles[SavePath]

\* C20: no step of a retrieval that starts with the archive file and all image
\* entries on disk creates, deletes or rewrites anything in the cache root;
\* the archive file and the extraction directory keep their modification
\* times, which are all the accounting pass reads to date the item.
C20_CachedViewTouchesNothingStep ==
  (pc \in {"view", "download", "open", "extract"} /\ AllCached) =>
     /\ archive' = archive
     /\ exdir' = exdir
     /\ exfiles' = exfiles
     /\ tmpfile' = tmpfile
C20_CachedViewTouchesNothing == [][C20_CachedViewTouchesNothingStep]_vars

\* C20 witness: the second retrieval of an item is over, later than the first
\* one; it found everything on disk, sent no request, extracted nothing and
\* returned pages, one of them stored under an md5 name, and the extraction
\* directory still has the older modification time.
C20_Witness ==
  /\ pc = "idle"
  /\ Len(runs) = 2
  /\ AllCached
  /\ runs[2].pages.ok
  /\ runs[2].requests = 0
  /\ runs[2].extracted = {}
  /\ \E p \in Range(pages.list) : p.hashed
  /\ exdir[SavePath].mtime < now
  /\ archive[SavePath].mtime < now

\* --------------------------------------- manage_cache_size: under the budget
\* The sum of the sizes the accounting pass recorded
AccountedTotal == SumSizes(manga_items_by_hash, items_order)

\* C21: when the sizes the accounting pass recorded sum to the budget or less,
\* no step of manage_cache_size changes anything in the cache root: every
\* archive file and every extraction directory is after the run as it was
\* before.
C21_UnderBudgetDeletesNothingStep ==
  (pc \in {"account", "evict"} /\ AccountedTotal' <= cache_limit_bytes) =>
     /\ archive' = archive
     /\ exdir' = exdir
     /\ exfiles' = exfiles
     /\ pc' = "cleanup" \/ pc' = pc
C21_UnderBudgetDeletesNothing == [][C21_UnderBudgetDeletesNothingStep]_vars

\* C21 witness: the run is over for a cache root with items of two keys, none
\* of them being read, whose recorded sizes sum to the budget exactly, and
\* nothing was evicted.
C21_Witness ==
  /\ ManageFinished
  /\ selected_manga_url = None
  /\ AccountedTotal = cache_limit_bytes
  /\ Cardinality(KeysOnDisk) = 2
  /\ evicted = <<>>
  /\ evict_failed = {}

\* ---------------------------------- the title list of a session, from empty:
\* any sequence of additions, removals and imports
\* Longest list of titles one import carries
MaxImport == 6

InitList ==
  /\ archive = [k \in Keys |-> NoFile]
  /\ exdir = [k \in Keys |-> NoFile]
  /\ exfiles = [k \in Keys |-> {}]
  /\ tmpfile = [s \in Sessions |-> NoFile]
  /\ now = 0
  /\ selected_manga_url = None
  /\ current_mode = "list"
  /\ manga_urls = <<>>
  /\ pc = "idle"
  /\ url_ext \in [Urls -> {".zip", ".txt"}]
  /\ resource_body = ChunkBytes
  /\ content_length = 0
  /\ zip_valid = TRUE
  /\ zip_entries = <<>>
  /\ SweepIdle
  /\ EvictIdle
  /\ DownloadIdle
  /\ ExtractIdle
  /\ RunsIdle

NextList ==
  \/ \E url \in Urls : add_manga_url(url)
  \/ \E url \in Urls : remove_manga_url(url)
  \/ \E imported \in SeqsUpTo({Manga(u) : u \in Urls}, MaxImport) :
       import_manga_list(imported)

SpecList == InitList /\ [][NextList]_vars

\* C22: after any sequence of add_manga_url, import_manga_list (or
\* load_from_share_url) and remove_manga_url that starts from the empty list,
\* no two entries of manga_urls have the same URL.
C22_NoDuplicateUrls ==
  \A i, j \in 1 .. Len(manga_urls) :
     i # j => manga_urls[i].url # manga_urls[j].url

====
